---- MODULE Spec2Model ----
(***************************************************************************)
(* A model of pyvmdstream: the session launcher/terminator (vmdstart,      *)
(* vmdstop), the command-streaming client (VMDStream), the generated Tcl   *)
(* control script (ctl_script) and the example trajectory reader           *)
(* (load_xyzfile).                                                         *)
(*                                                                         *)
(* Four specifications share the variables; each leaves the variables of   *)
(* the other parts at their idle values:                                   *)
(*   Spec      the client session: connect retry loop, sends, terminate    *)
(*   SpecDraw  one call of VMDStream.draw_atomic on chosen arguments       *)
(*   SpecXyz   one call of load_xyzfile on a chosen input file             *)
(*   SpecCtl   the control script running inside the host program          *)
(*                                                                         *)
(* Conventions.  Python's None is an optional value [given, val].  Arrays  *)
(* are sequences; a 0-based Python index i reads element i+1 (see At).     *)
(* Real numbers are fixed point: inputs in thousandths, "%f" output in     *)
(* millionths (six decimals).  A line written to the socket is a record    *)
(* [cmd, args]: the command text and the numbers interpolated into it.     *)
(***************************************************************************)
EXTENDS Integers, Sequences, FiniteSets, TLC

VARIABLES
    \* ---- session (vmdstart, VMDStream.send/draw_atomic/close, vmdstop)
    pc,         \* "off" | "connecting" | "returned" | "raised"
    portValid,  \* whether the port argument is an integer in 0..65535
    eisconn,    \* the platform's errno for connect() on a connected socket
    sock,       \* "unconnected" | "connected" | "closed"
    attempts,   \* results of the s.connect calls made so far, in order
    printed,    \* the exceptions printed by the retry loop, in order
    calls,      \* socket calls made after vmdstart returned, in order
    ops,        \* number of client operations called so far
    stopped,    \* number of vmdstop calls that returned normally
    \* ---- one draw_atomic call
    dpc,        \* "off" | "call" | "done"
    dargs,      \* the arguments of the call
    dout,       \* what the call did: [lines, raised]
    \* ---- one load_xyzfile call
    xpc,        \* "off" | "call" | "done"
    xin,        \* the input: [fmt, N, F, types, lines]
    xout,       \* what the call returned
    \* ---- the control script inside the host program
    cpc,        \* "off" | "running" | "exited"
    main,       \* the listening socket: "open" | "closed"
    conns,      \* server-side channels, in order of arrival: [addr, open]
    clients,    \* indices of conns recorded in the clients array
    handlers,   \* indices of conns that have a readable handler
    inbuf,      \* per channel: lines the peer sent and the server has not read
    peerClosed, \* per channel: whether the peer closed its end
    eofSeen,    \* per channel: whether a read has hit end of file
    evaluated   \* <<channel, line>> handed to catch, in order

sessionVars == <<pc, portValid, eisconn, sock, attempts, printed, calls, ops, stopped>>
drawVars == <<dpc, dargs, dout>>
xyzVars == <<xpc, xin, xout>>
ctlVars == <<cpc, main, conns, clients, handlers, inbuf, peerClosed, eofSeen, evaluated>>
vars == <<sessionVars, drawVars, xyzVars, ctlVars>>

\* What the actions of one part leave alone.
notSession == <<drawVars, xyzVars, ctlVars>>
notDraw == <<sessionVars, xyzVars, ctlVars>>
notXyz == <<sessionVars, drawVars, ctlVars>>
notCtl == <<sessionVars, drawVars, xyzVars>>

----------------------------------------------------------------------------
\* Bounds of the model.

MaxOps == 3
MaxAtoms == 2
CVDenom == 2
MaxFrames == 2
MaxConns == 2
MaxLines == 2

----------------------------------------------------------------------------
\* Program constants.

VMDSTARTCOLOR == 33
VMDNCOLORS == 1024
RetryCount == 5
DefaultSphereResolution == 30

----------------------------------------------------------------------------
\* Shared helpers.

None == [given |-> FALSE, val |-> <<>>]
Some(v) == [given |-> TRUE, val |-> v]

\* arr[i] for a 0-based index i.
At(arr, i) == arr[i + 1]

Line(cmd, args) == [cmd |-> cmd, args |-> args]

RECURSIVE Concat(_)
Concat(ss) == IF ss = <<>> THEN <<>> ELSE Head(ss) \o Concat(Tail(ss))

----------------------------------------------------------------------------
\* VMDStream.draw_atomic: the lines one call writes to the socket.

\* "%f" of a value given in thousandths: six decimals, in millionths.
FmtMilli(x) == x * 1000

\* floor(v * VMDNCOLORS) for the colour value v = k / CVDenom.
FloorScaled(k) == (k * VMDNCOLORS) \div CVDenom

\* A mutant: the setup does not clear the previous drawing.
SetupLinesNoDelete ==
    << Line("axes location off\n", <<>>),
       Line("display projection orthographic\n", <<>>),
       Line("display resize 800 800\n", <<>>),
       Line("draw materials on\n", <<>>),
       Line("draw material \"HardPlastic\"\n", <<>>) >>

\* The example initial setup.
SetupLines ==
    << Line("axes location off\n", <<>>),
       Line("display projection orthographic\n", <<>>),
       Line("display resize 800 800\n", <<>>),
       Line("draw delete all\n", <<>>),
       Line("draw materials on\n", <<>>),
       Line("draw material \"HardPlastic\"\n", <<>>) >>

ResetViewLines ==
    << Line("display resetview\n", <<>>),
       Line("scale by 1.3\n", <<>>) >>

ColorLine(id) == Line("draw color %i\n", <<id>>)

SphereLine(p, radius, res) ==
    Line("draw sphere {%f %f %f} radius %f resolution %i\n",
         <<FmtMilli(p[1]), FmtMilli(p[2]), FmtMilli(p[3]), FmtMilli(radius), res>>)

\* radius and fraction are both in thousandths: their product is in millionths.
CylinderLine(p, q, radius, fraction, res) ==
    Line("draw cylinder {%f %f %f} {%f %f %f} radius %f resolution %i filled yes\n",
         <<FmtMilli(p[1]), FmtMilli(p[2]), FmtMilli(p[3]),
           FmtMilli(q[1]), FmtMilli(q[2]), FmtMilli(q[3]), radius * fraction, res>>)

\* A mutant: an explicit color_list wins over color_value_list.
ColorListDiscreteFirst(a) ==
    IF a.color_list.given THEN a.color_list
    ELSE IF a.color_value_list.given
         THEN Some([k \in DOMAIN a.color_value_list.val |->
                       FloorScaled(a.color_value_list.val[k])])
         ELSE a.color_list

\* The color_list in force after the "readjust color value list" step.
ColorList(a) ==
    IF a.color_value_list.given
    THEN Some([k \in DOMAIN a.color_value_list.val |->
                  FloorScaled(a.color_value_list.val[k])])
    ELSE a.color_list

\* The colour line written for particle i (none when there is neither a
\* colour list nor atom types).
ColorLines(a, cl, i) ==
    IF cl.given THEN << ColorLine(At(cl.val, i) + VMDSTARTCOLOR) >>
    ELSE IF a.atomtypes.given THEN << ColorLine(At(a.atomtypes.val, i)) >>
    ELSE <<>>

\* A mutant: the per-particle radius is preferred to the per-type radius.
ThisRadiusParticleFirst(a, i) ==
    IF a.radius_list.given THEN At(a.radius_list.val, i)
    ELSE IF a.radii.given /\ a.atomtypes.given
         THEN At(a.radii.val, At(a.atomtypes.val, i))
         ELSE a.default_radius

ThisRadius(a, i) ==
    IF a.radii.given /\ a.atomtypes.given
    THEN At(a.radii.val, At(a.atomtypes.val, i))
    ELSE IF a.radius_list.given THEN At(a.radius_list.val, i)
    ELSE a.default_radius

\* The bond loop: per bond, the colour line of its first particle, then a
\* cylinder.
BondLines(a, cl) ==
    IF ~a.bond_list.given THEN <<>>
    ELSE Concat([b \in DOMAIN a.bond_list.val |->
            LET i == a.bond_list.val[b][1]
                j == a.bond_list.val[b][2]
            IN  ColorLines(a, cl, i)
                \o << CylinderLine(At(a.configuration, i), At(a.configuration, j),
                                   ThisRadius(a, i), a.cylinder_radius_fraction,
                                   a.sphere_resolution) >>])

\* Whether the connecting-segments loop of particle i indexes atomtypes.
ConnectReadsTypes(a, i) ==
    /\ i + 1 < Len(a.configuration)
    /\ a.connecting_segments_types.given
    /\ a.connecting_segments_types.val # <<>>

\* The connecting-segments loop of particle i: one cylinder per list entry
\* that equals the type of particle i and of particle i+1.
ConnectLines(a, i) ==
    IF ~(i + 1 < Len(a.configuration) /\ a.connecting_segments_types.given) THEN <<>>
    ELSE Concat([c \in DOMAIN a.connecting_segments_types.val |->
            IF /\ At(a.atomtypes.val, i) = a.connecting_segments_types.val[c]
               /\ At(a.atomtypes.val, i + 1) = a.connecting_segments_types.val[c]
            THEN << CylinderLine(At(a.configuration, i), At(a.configuration, i + 1),
                                 ThisRadius(a, i), a.cylinder_radius_fraction,
                                 a.sphere_resolution) >>
            ELSE <<>>])

\* The particle loop from particle i on.  Indexing atomtypes = None raises a
\* TypeError, which ends the call after the lines already written.
RECURSIVE ParticleLoop(_, _, _)
ParticleLoop(a, cl, i) ==
    IF i >= Len(a.configuration) THEN [lines |-> <<>>, raised |-> FALSE]
    ELSE LET own == ColorLines(a, cl, i)
                    \o << SphereLine(At(a.configuration, i), ThisRadius(a, i),
                                     a.sphere_resolution) >>
         IN  IF ConnectReadsTypes(a, i) /\ ~a.atomtypes.given
             THEN [lines |-> own, raised |-> TRUE]
             ELSE LET rest == ParticleLoop(a, cl, i + 1)
                  IN  [lines |-> own \o ConnectLines(a, i) \o rest.lines,
                       raised |-> rest.raised]

\* The whole call: what is written, and whether an exception ended it.
DrawAtomic(a) ==
    LET cl == ColorList(a)
        loop == ParticleLoop(a, cl, 0)
    IN  [lines |-> SetupLines \o BondLines(a, cl) \o loop.lines
                   \o (IF ~loop.raised /\ a.reset_view THEN ResetViewLines ELSE <<>>),
         raised |-> loop.raised]

\* ---- arguments

\* configuration: particle i at (i, i/2, 0).
Configuration(n) == [k \in 1..n |-> <<1000 * (k - 1), 500 * (k - 1), 0>>]

TypeIds == {0, 1}
\* radii of the two atom types of the example input.
ExampleRadii == <<450, 350>>

OptArrays(n, S) == {None} \cup {Some(f) : f \in [1..n -> S]}

\* Colour values k / CVDenom: particle i gets (first + i) modulo CVDenom + 1.
ColorValueLists(n) ==
    {None} \cup {Some([k \in 1..n |-> (first + k - 1) % (CVDenom + 1)]) :
                    first \in 0..CVDenom}

BondLists(n) ==
    {None, Some(<<>>)}
    \cup {Some(<<p>>) : p \in {q \in (0..(n-1)) \X (0..(n-1)) : q[1] # q[2]}}
    \cup {Some(<<p, <<p[2], p[1]>> >>) : p \in {q \in (0..(n-1)) \X (0..(n-1)) : q[1] < q[2]}}

ConnectLists == {None, Some(<<>>), Some(<<0>>), Some(<<0, 1>>), Some(<<0, 0>>)}

DrawArgs(n) ==
    [configuration : {Configuration(n)},
     atomtypes : OptArrays(n, TypeIds),
     default_radius : {500},
     radii : {None, Some(ExampleRadii)},
     radius_list : {None, Some([k \in 1..n |-> 100 * (k + 1)])},
     color_list : {None, Some([k \in 1..n |-> 1023 - k])},
     color_value_list : ColorValueLists(n),
     sphere_resolution : {DefaultSphereResolution},
     connecting_segments_types : ConnectLists,
     bond_list : BondLists(n),
     cylinder_radius_fraction : {500},
     reset_view : BOOLEAN]

\* draw_atomic( trajectory[0] ): positions only, every other argument default.
PlainArgs(n) ==
    [configuration |-> Configuration(n), atomtypes |-> None, default_radius |-> 500,
     radii |-> None, radius_list |-> None, color_list |-> None,
     color_value_list |-> None, sphere_resolution |-> DefaultSphereResolution,
     connecting_segments_types |-> None, bond_list |-> None,
     cylinder_radius_fraction |-> 500, reset_view |-> TRUE]

DrawIdle == dpc = "off" /\ dargs = PlainArgs(0) /\ dout = [lines |-> <<>>, raised |-> FALSE]

DrawInit ==
    /\ dpc = "call"
    /\ \E n \in 0..MaxAtoms : dargs \in DrawArgs(n)
    /\ dout = [lines |-> <<>>, raised |-> FALSE]

DrawAtomicCall ==
    /\ dpc = "call"
    /\ dout' = DrawAtomic(dargs)
    /\ dpc' = "done"
    /\ UNCHANGED dargs
    /\ UNCHANGED notDraw

----------------------------------------------------------------------------
\* vmdstart, vmdstop and the VMDStream methods that write to the socket.

\* The result of one s.connect call: success, or an exception, which may or
\* may not carry an errno attribute.
Connected == [ok |-> TRUE, hasErrno |-> FALSE, errno |-> 0]
Errno(e) == [ok |-> FALSE, hasErrno |-> TRUE, errno |-> e]
NoErrno == [ok |-> FALSE, hasErrno |-> FALSE, errno |-> 0]

\* errno of connect() on a connected socket: EISCONN on Linux, on BSD/macOS
\* and WSAEISCONN on Windows.
PlatformEisconn == {106, 56, 10056}
\* errno of connect() that fails on an unconnected socket: ECONNREFUSED on
\* Linux and on BSD/macOS.
RefusedErrnos == {111, 61}

\* What s.connect(("127.0.0.1",port)) can do.  A port outside 0..65535 (or
\* not an integer) raises OverflowError (TypeError), which has no errno.
ConnectResults ==
    IF ~portValid THEN {NoErrno}
    ELSE IF sock = "connected" THEN {Errno(eisconn)}
    ELSE {Connected} \cup {Errno(e) : e \in RefusedErrnos}

\* A mutant: the "already connected" error does not end the loop.
HandlerNoBreak(r) ==
    IF r.ok THEN "next"
    ELSE IF ~r.hasErrno THEN "propagate"
    ELSE "print"

\* A mutant: the other exceptions are swallowed without being printed.
HandlerSilent(r) ==
    IF r.ok THEN "next"
    ELSE IF ~r.hasErrno THEN "propagate"
    ELSE IF r.errno = 106 \/ r.errno = 56 THEN "break"
    ELSE "next"

\* The try/except of one loop iteration: "next" (no exception: on to the
\* sleep), "break", "print" (and on to the sleep), or "propagate": reading
\* e.errno of an exception without that attribute raises AttributeError out
\* of the handler.
Handler(r) ==
    IF r.ok THEN "next"
    ELSE IF ~r.hasErrno THEN "propagate"
    ELSE IF r.errno = 106 \/ r.errno = 56 THEN "break"
    ELSE "print"

SessionIdle ==
    /\ pc = "off" /\ portValid = TRUE /\ eisconn = 106 /\ sock = "unconnected"
    /\ attempts = <<>> /\ printed = <<>> /\ calls = <<>> /\ ops = 0 /\ stopped = 0

\* vmdstart up to the loop: script written, vmd started, socket created.
SessionInit ==
    /\ pc = "connecting"
    /\ portValid \in BOOLEAN
    /\ eisconn \in PlatformEisconn
    /\ sock = "unconnected"
    /\ attempts = <<>> /\ printed = <<>> /\ calls = <<>> /\ ops = 0 /\ stopped = 0

\* One iteration of "for i in range(5)", and the return that follows the
\* last one.
ConnectAttempt ==
    /\ pc = "connecting"
    /\ Len(attempts) < RetryCount
    /\ \E r \in ConnectResults :
         LET h == Handler(r)
         IN  /\ attempts' = Append(attempts, r)
             /\ sock' = IF r.ok THEN "connected" ELSE sock
             /\ printed' = IF h = "print" THEN Append(printed, r) ELSE printed
             /\ pc' = IF h = "propagate" THEN "raised"
                      ELSE IF h = "break" \/ Len(attempts) + 1 = RetryCount
                           THEN "returned"
                           ELSE "connecting"
    /\ UNCHANGED <<portValid, eisconn, calls, ops, stopped>>
    /\ UNCHANGED notSession

\* s.send(text): the call is recorded; it succeeds on a connected socket and
\* raises socket.error otherwise (not connected, or closed).
SendCall(by, line) == [op |-> "send", by |-> by, line |-> line, ok |-> sock = "connected"]
CloseCall(by) == [op |-> "close", by |-> by, line |-> Line("", <<>>), ok |-> TRUE]

\* The calls a sequence of sends makes: all of them on a connected socket,
\* the first one alone (it raises) otherwise.
SendAll(by, lines) ==
    IF sock = "connected" THEN [k \in DOMAIN lines |-> SendCall(by, lines[k])]
    ELSE IF lines = <<>> THEN <<>>
    ELSE << SendCall(by, lines[1]) >>

RawTexts == {"draw sphere {0 0 0} radius 1 resolution 30\n", "exit\n"}

\* VMDStream.send(sendstring)
Send ==
    /\ pc = "returned" /\ ops < MaxOps
    /\ \E t \in RawTexts : calls' = Append(calls, SendCall("send", Line(t, <<>>)))
    /\ ops' = ops + 1
    /\ UNCHANGED <<pc, portValid, eisconn, sock, attempts, printed, stopped>>
    /\ UNCHANGED notSession

\* VMDStream.draw_atomic(configuration), every other argument default.
Draw ==
    /\ pc = "returned" /\ ops < MaxOps
    /\ \E n \in 0..1 :
         calls' = calls \o SendAll("draw_atomic", DrawAtomic(PlainArgs(n)).lines)
    /\ ops' = ops + 1
    /\ UNCHANGED <<pc, portValid, eisconn, sock, attempts, printed, stopped>>
    /\ UNCHANGED notSession

\* A mutant: the socket is closed before the exit command is sent.
VmdstopCallsCloseFirst ==
    << CloseCall("vmdstop"),
       [op |-> "send", by |-> "vmdstop", line |-> Line("exit\n", <<>>), ok |-> FALSE] >>

\* The socket calls of vmdstop(s): s.send("exit\n"), then, unless that
\* raised, s.close().
VmdstopCalls ==
    << SendCall("vmdstop", Line("exit\n", <<>>)) >>
    \o (IF sock = "connected" THEN << CloseCall("vmdstop") >> ELSE <<>>)

\* vmdstop(s), also reached through VMDStream.close().
Vmdstop ==
    /\ pc = "returned" /\ ops < MaxOps
    /\ calls' = calls \o VmdstopCalls
    /\ sock' = IF \E k \in DOMAIN VmdstopCalls : VmdstopCalls[k].op = "close"
               THEN "closed" ELSE sock
    /\ stopped' = IF VmdstopCalls[Len(VmdstopCalls)].ok THEN stopped + 1 ELSE stopped
    /\ ops' = ops + 1
    /\ UNCHANGED <<pc, portValid, eisconn, attempts, printed>>
    /\ UNCHANGED notSession

SessionNext == ConnectAttempt \/ Send \/ Draw \/ Vmdstop

----------------------------------------------------------------------------
\* load_xyzfile.  A file is a sequence of lines and a line the sequence of
\* its whitespace-separated tokens (line.split()).

\* The numeric tokens of the inputs, with the value int() or float() gives.
NumTokens == {"0", "1", "2", "3", "4", "5", "10"}
NumVal(t) ==
    CASE t = "0" -> 0 [] t = "1" -> 1 [] t = "2" -> 2 [] t = "3" -> 3
      [] t = "4" -> 4 [] t = "5" -> 5 [] t = "10" -> 10
Tok(n) == CHOOSE t \in NumTokens : NumVal(t) = n

\* fh.readline(): the next line, or the empty string at the end of the file.
ReadLine(file, p) ==
    IF p <= Len(file) THEN [eof |-> FALSE, toks |-> file[p]]
    ELSE [eof |-> TRUE, toks |-> <<>>]

\* list.index(x), 0-based.
IndexOf(list, x) ==
    (CHOOSE k \in 1..Len(list) : list[k] = x /\ \A j \in 1..(k - 1) : list[j] # x) - 1

\* A mutant: a new label is numbered after it is appended.
LabelOfAfterAppend(labels, atomtype) ==
    IF \E k \in 1..Len(labels) : labels[k] = atomtype
    THEN [numeric |-> IndexOf(labels, atomtype), labels |-> labels]
    ELSE [numeric |-> Len(labels) + 1, labels |-> Append(labels, atomtype)]

\* The numeric atom type of a label, and atomtype_label_list afterwards.
LabelOf(labels, atomtype) ==
    IF \E k \in 1..Len(labels) : labels[k] = atomtype
    THEN [numeric |-> IndexOf(labels, atomtype), labels |-> labels]
    ELSE [numeric |-> Len(labels), labels |-> Append(labels, atomtype)]

\* "for i in range(N)" from atom i on, reading from line p.  A line with
\* fewer than five tokens (the empty string at the end of the file too) or
\* with a coordinate that is no number raises ValueError.
RECURSIVE ReadAtoms(_, _, _, _, _, _, _)
ReadAtoms(file, p, i, n, labels, configuration, atomtypes) ==
    IF i >= n
    THEN [ok |-> TRUE, labels |-> labels, configuration |-> configuration,
          atomtypes |-> atomtypes]
    ELSE LET toks == ReadLine(file, p).toks
         IN  IF Len(toks) < 5 \/ \E c \in 3..5 : toks[c] \notin NumTokens
             THEN [ok |-> FALSE, labels |-> labels, configuration |-> configuration,
                   atomtypes |-> atomtypes]
             ELSE LET lab == LabelOf(labels, toks[2])
                  IN  ReadAtoms(file, p + 1, i + 1, n, lab.labels,
                                Append(configuration,
                                       <<NumVal(toks[3]), NumVal(toks[4]), NumVal(toks[5])>>),
                                Append(atomtypes, lab.numeric))

\* A mutant: the line after the box line is looked at but not consumed.
TrailingReadPeek(file, p) == [line |-> ReadLine(file, p), next |-> p]

\* "line = fh.readline()" at the end of the loop body: the line that decides
\* "while line", and the position of the line after it.
TrailingRead(file, p) == [line |-> ReadLine(file, p), next |-> p + 1]

XyzError == [status |-> "error", trajectory |-> <<>>, atomtype_list |-> <<>>,
             boxsize_list |-> <<>>]

\* The body of "while line", entered with the next unread line at p.
RECURSIVE ReadFrames(_, _, _, _, _)
ReadFrames(file, n, p, labels, acc) ==
    LET atoms == ReadAtoms(file, p, 0, n, labels, <<>>, <<>>)
    IN  IF ~atoms.ok THEN XyzError
        ELSE LET box == ReadLine(file, p + n).toks
             IN  IF \E c \in DOMAIN box : box[c] \notin NumTokens THEN XyzError
                 ELSE LET out == [status |-> "ok",
                                  trajectory |-> Append(acc.trajectory, atoms.configuration),
                                  atomtype_list |-> Append(acc.atomtype_list, atoms.atomtypes),
                                  boxsize_list |-> Append(acc.boxsize_list,
                                                          [c \in DOMAIN box |-> NumVal(box[c])])]
                          tr == TrailingRead(file, p + n + 1)
                      IN  IF tr.line.eof THEN out
                          ELSE ReadFrames(file, n, tr.next, atoms.labels, out)

\* load_xyzfile(xyzfile) on the lines of the file.
LoadXyzfile(file) ==
    LET line == ReadLine(file, 1)
    IN  IF line.toks = <<>> THEN XyzError
        ELSE IF line.toks[1] \notin NumTokens THEN XyzError
        ELSE ReadFrames(file, NumVal(line.toks[1]), 2, <<>>,
                        [status |-> "ok", trajectory |-> <<>>, atomtype_list |-> <<>>,
                         boxsize_list |-> <<>>])

\* ---- input files

TypeNames == {"A", "B", "1"}

HeaderLine(n) == <<Tok(n), "atoms">>
AtomLine(id, atomtype) == <<Tok(id), atomtype, Tok(id), Tok(id + 1), "0">>
BoxLine == <<"10", "10", "10">>

\* Frame f of a file of n-particle frames whose atom types, frame after
\* frame, are types.
FrameLines(n, types, f) ==
    [k \in 1..n |-> AtomLine(k - 1, types[(f - 1) * n + k])] \o << BoxLine >>

\* fmt "once": the header on line 1 only, then the frames.
\* fmt "perframe": every frame after its own header line (configurations
\* concatenated together).
FileLines(fmt, n, nframes, types) ==
    IF fmt = "once"
    THEN << HeaderLine(n) >> \o Concat([f \in 1..nframes |-> FrameLines(n, types, f)])
    ELSE Concat([f \in 1..nframes |-> << HeaderLine(n) >> \o FrameLines(n, types, f)])

XyzInput(fmt, n, nframes, types) ==
    [fmt |-> fmt, N |-> n, F |-> nframes, types |-> types,
     lines |-> FileLines(fmt, n, nframes, types)]

XyzIdle ==
    /\ xpc = "off"
    /\ xin = [fmt |-> "once", N |-> 0, F |-> 0, types |-> <<>>, lines |-> <<>>]
    /\ xout = XyzError

XyzInit ==
    /\ xpc = "call"
    /\ \E fmt \in {"once", "perframe"}, n \in 1..MaxAtoms, nframes \in 1..MaxFrames :
         \E types \in [1..(n * nframes) -> TypeNames] :
             xin = XyzInput(fmt, n, nframes, types)
    /\ xout = XyzError

LoadXyzfileCall ==
    /\ xpc = "call"
    /\ xout' = LoadXyzfile(xin.lines)
    /\ xpc' = "done"
    /\ UNCHANGED xin
    /\ UNCHANGED notXyz

----------------------------------------------------------------------------
\* The control script of ctl_script, running inside the host program.

PeerAddrs == {"127.0.0.1", "192.168.0.7"}
PeerLines == {"quit", "exit", "draw delete all"}

\* Commands of the host program that end it ("'quit' closes VMD").
HostExitCommands == {"quit", "exit"}

\* A mutant: acpt lets every peer in.
AcptAllowsAll(addr) == TRUE

\* acpt: [string compare $addr "127.0.0.1"] is 0.
AcptAllows(addr) == addr = "127.0.0.1"

SetAt(seq, c, v) == [seq EXCEPT ![c] = v]

CtlIdle ==
    /\ cpc = "off" /\ main = "closed" /\ conns = <<>> /\ clients = {} /\ handlers = {}
    /\ inbuf = <<>> /\ peerClosed = <<>> /\ eofSeen = <<>> /\ evaluated = <<>>

\* The script has been sourced: remote_ctl::start has opened the server
\* socket.
CtlInit ==
    /\ cpc = "running" /\ main = "open" /\ conns = <<>> /\ clients = {} /\ handlers = {}
    /\ inbuf = <<>> /\ peerClosed = <<>> /\ eofSeen = <<>> /\ evaluated = <<>>

\* A peer connects to the listening socket and Tcl calls acpt.
Acpt ==
    /\ cpc = "running" /\ main = "open" /\ Len(conns) < MaxConns
    /\ \E addr \in PeerAddrs :
         LET c == Len(conns) + 1
         IN  IF ~AcptAllows(addr)
             THEN /\ conns' = Append(conns, [addr |-> addr, open |-> FALSE])
                  /\ UNCHANGED <<clients, handlers>>
             ELSE /\ conns' = Append(conns, [addr |-> addr, open |-> TRUE])
                  /\ clients' = clients \cup {c}
                  /\ handlers' = handlers \cup {c}
    /\ inbuf' = Append(inbuf, <<>>)
    /\ peerClosed' = Append(peerClosed, FALSE)
    /\ eofSeen' = Append(eofSeen, FALSE)
    /\ UNCHANGED <<cpc, main, evaluated>>
    /\ UNCHANGED notCtl

LinesInFlight == Len(Concat(inbuf)) + Len(evaluated)

\* The peer of channel c writes a line (whatever the server did with c).
PeerSend ==
    /\ cpc = "running" /\ LinesInFlight < MaxLines
    /\ \E c \in 1..Len(conns), line \in PeerLines :
         /\ ~peerClosed[c]
         /\ inbuf' = SetAt(inbuf, c, Append(inbuf[c], line))
    /\ UNCHANGED <<cpc, main, conns, clients, handlers, peerClosed, eofSeen, evaluated>>
    /\ UNCHANGED notCtl

\* The peer of channel c closes its end.
PeerClose ==
    /\ cpc = "running"
    /\ \E c \in 1..Len(conns) :
         /\ ~peerClosed[c]
         /\ peerClosed' = SetAt(peerClosed, c, TRUE)
    /\ UNCHANGED <<cpc, main, conns, clients, handlers, inbuf, eofSeen, evaluated>>
    /\ UNCHANGED notCtl

\* The host program ends: the listening socket and every channel go.
HostExit ==
    /\ cpc' = "exited"
    /\ main' = "closed"
    /\ conns' = [c \in DOMAIN conns |-> [conns[c] EXCEPT !.open = FALSE]]
    /\ clients' = {}
    /\ handlers' = {}

\* "set rc [catch $line result]" for channel c.
Evaluate(c, line) ==
    /\ evaluated' = Append(evaluated, <<c, line>>)
    /\ IF line \in HostExitCommands
       THEN HostExit
       ELSE UNCHANGED <<cpc, conns, clients, handlers>>

\* recv, the readable handler of channel c.
Recv ==
    /\ cpc = "running"
    /\ \E c \in handlers :
         /\ conns[c].open
         /\ inbuf[c] # <<>> \/ peerClosed[c]
         /\ IF eofSeen[c]
            THEN \* [eof $sock]: close the channel, forget the client
                 /\ conns' = SetAt(conns, c, [conns[c] EXCEPT !.open = FALSE])
                 /\ clients' = clients \ {c}
                 /\ handlers' = handlers \ {c}
                 /\ UNCHANGED <<cpc, main, inbuf, eofSeen, evaluated>>
            ELSE IF inbuf[c] = <<>>
            THEN \* gets hits the end of file: line is the empty string
                 /\ eofSeen' = SetAt(eofSeen, c, TRUE)
                 /\ Evaluate(c, "")
                 /\ UNCHANGED <<main, inbuf>>
            ELSE LET line == Head(inbuf[c])
                 IN  /\ inbuf' = SetAt(inbuf, c, Tail(inbuf[c]))
                     /\ UNCHANGED eofSeen
                     /\ IF line = "quit" /\ main = "closed"
                        THEN \* close $main fails: the handler ends in an
                             \* error and Tcl deletes it
                             /\ handlers' = handlers \ {c}
                             /\ UNCHANGED <<cpc, main, conns, clients, evaluated>>
                        ELSE /\ Evaluate(c, line)
                             /\ main' = IF line = "quit" \/ line \in HostExitCommands
                                        THEN "closed" ELSE main
    /\ UNCHANGED peerClosed
    /\ UNCHANGED notCtl

CtlNext == Acpt \/ PeerSend \/ PeerClose \/ Recv

----------------------------------------------------------------------------
\* The specifications.

Init == SessionInit /\ DrawIdle /\ XyzIdle /\ CtlIdle
Next == SessionNext
Spec == Init /\ [][Next]_vars

InitDraw == DrawInit /\ SessionIdle /\ XyzIdle /\ CtlIdle
NextDraw == DrawAtomicCall
SpecDraw == InitDraw /\ [][NextDraw]_vars

InitXyz == XyzInit /\ SessionIdle /\ DrawIdle /\ CtlIdle
NextXyz == LoadXyzfileCall
SpecXyz == InitXyz /\ [][NextXyz]_vars

InitCtl == CtlInit /\ SessionIdle /\ DrawIdle /\ XyzIdle
NextCtl == CtlNext
SpecCtl == InitCtl /\ [][NextCtl]_vars

----------------------------------------------------------------------------
\* Claims about the session.

AlreadyConnected(r) == ~r.ok /\ r.hasErrno /\ r.errno \in {106, 56}
OtherFailure(r) == ~r.ok /\ ~AlreadyConnected(r)
ExitLine == Line("exit\n", <<>>)
StopExitSends ==
    {k \in DOMAIN calls : calls[k].by = "vmdstop" /\ calls[k].op = "send" /\ calls[k].ok}

\* C1, as stated: the loop makes at most 5 connect attempts, and no connect
\* attempt follows one that succeeded or failed with errno 106 or 56.
C1_SuccessEndsLoop ==
    /\ Len(attempts) <= 5
    /\ \A k \in 1..(Len(attempts) - 1) :
         ~attempts[k].ok /\ ~AlreadyConnected(attempts[k])

\* C1, amended: the loop makes at most 5 connect attempts; no attempt
\* follows one that failed with errno 106 or 56; and that error is the only
\* thing that ends the loop before the fifth attempt, a successful connect
\* does not.
C1_AlreadyConnectedEndsLoop ==
    /\ Len(attempts) <= 5
    /\ \A k \in 1..(Len(attempts) - 1) : ~AlreadyConnected(attempts[k])
    /\ pc = "returned" =>
         Len(attempts) = 5 \/ AlreadyConnected(attempts[Len(attempts)])

\* C1's case: the first attempt succeeded, connect was called again, and the
\* "already connected" error of that second call ended the loop.
C1_Witness ==
    /\ pc = "returned" /\ Len(attempts) = 2
    /\ attempts[1].ok /\ AlreadyConnected(attempts[2])

\* C4: every close of the socket directly follows vmdstop's own successful
\* send of "exit\n"; vmdstop sends that text at most once on a socket, and
\* exactly once when it has closed it; and each such send is followed by the
\* close.
C4_ExitOnceBeforeClose ==
    /\ \A k \in DOMAIN calls :
         calls[k].op = "close" =>
           /\ k > 1
           /\ calls[k - 1] = [op |-> "send", by |-> "vmdstop", line |-> ExitLine, ok |-> TRUE]
    /\ \A k \in StopExitSends :
         /\ calls[k].line = ExitLine
         /\ k < Len(calls) /\ calls[k + 1].op = "close"
    /\ Cardinality(StopExitSends) <= 1
    /\ (sock = "closed" \/ stopped > 0) =>
         Cardinality(StopExitSends) = 1 /\ sock = "closed" /\ stopped = 1

\* C4's case: a connected session is terminated without any draw or send
\* before.
C4_Witness ==
    /\ sock = "closed" /\ stopped = 1
    /\ \A k \in DOMAIN calls : calls[k].by = "vmdstop"

\* C7: when 5 connect attempts were made and each failed with an error other
\* than "already connected", vmdstart has returned (not raised) the socket,
\* unconnected, and has printed each of the 5 exceptions; and when it
\* returns after failures only, it has made exactly 5 attempts.
C7_AllFailReturnsUnconnected ==
    /\ (Len(attempts) = 5 /\ \A k \in 1..5 : OtherFailure(attempts[k])) =>
         pc = "returned" /\ sock = "unconnected" /\ printed = attempts
    /\ (pc = "returned" /\ \A k \in DOMAIN attempts : OtherFailure(attempts[k])) =>
         Len(attempts) = 5

\* C7's case: five refused connects.
C7_Witness ==
    /\ pc = "returned" /\ Len(attempts) = 5
    /\ \A k \in 1..5 : OtherFailure(attempts[k])

----------------------------------------------------------------------------
\* Claims about draw_atomic.

ColorCmd == "draw color %i\n"
SphereCmd == "draw sphere {%f %f %f} radius %f resolution %i\n"
CylinderCmd == "draw cylinder {%f %f %f} {%f %f %f} radius %f resolution %i filled yes\n"

Written == dout.lines
NAtoms == Len(dargs.configuration)
Spheres == {p \in DOMAIN Written : Written[p].cmd = SphereCmd}
\* The cylinders of the bond loop: those written before every sphere.
BondCylinders ==
    {p \in DOMAIN Written : Written[p].cmd = CylinderCmd /\ \A q \in Spheres : p < q}
\* The k-th (from 1) member of a set of line numbers.
Nth(S, k) == CHOOSE p \in S : Cardinality({q \in S : q <= p}) = k
\* Particles whose sphere was written.
Drawn(spheres) == {i \in 0..(NAtoms - 1) : i + 1 <= Cardinality(spheres)}
Bonds == IF dargs.bond_list.given THEN DOMAIN dargs.bond_list.val ELSE {}
BondStart(b) == dargs.bond_list.val[b][1]

\* Whether m = floor(v * 1024) for the colour value v of particle i, from the
\* definition of floor.
IsFloorOfValue(i, m) ==
    /\ m * CVDenom <= At(dargs.color_value_list.val, i) * 1024
    /\ At(dargs.color_value_list.val, i) * 1024 < (m + 1) * CVDenom

\* Whether the line before line p is a "draw color" command whose id is
\* floor(v * 1024) + offset for the colour value v of particle i.
ColoredByValue(p, i, offset) ==
    /\ p > 1
    /\ Written[p - 1].cmd = ColorCmd
    /\ Len(Written[p - 1].args) = 1
    /\ IsFloorOfValue(i, Written[p - 1].args[1] - offset)

\* C3, as stated: with continuousColors given, the id of the "draw color"
\* command of every particle i is floor(continuousColors[i] * 1024),
\* whatever discreteColors is.
C3_ColorIdIsFloor ==
    (dpc = "done" /\ dargs.color_value_list.given) =>
        LET spheres == Spheres
        IN  \A i \in Drawn(spheres) :
                ColoredByValue(Nth(spheres, i + 1), i, 0)

\* C3, amended: with continuousColors given, the id of the "draw color"
\* command written for every particle i (before its sphere, and before the
\* cylinder of a bond that starts at i) is floor(continuousColors[i] * 1024)
\* + 33, whatever discreteColors is.
C3_ColorIdIsFloorPlusStart ==
    (dpc = "done" /\ dargs.color_value_list.given) =>
        LET spheres == Spheres
            cylinders == BondCylinders
        IN  /\ \A i \in Drawn(spheres) :
                 ColoredByValue(Nth(spheres, i + 1), i, 33)
            /\ Cardinality(cylinders) = Cardinality(Bonds)
            /\ \A b \in Bonds :
                 ColoredByValue(Nth(cylinders, b), BondStart(b), 33)

\* C3's case: both colour arrays were given, for at least two particles with
\* different colour values, and there is a bond.
C3_Witness ==
    /\ dpc = "done" /\ ~dout.raised
    /\ dargs.color_value_list.given /\ dargs.color_list.given
    /\ NAtoms >= 2 /\ Bonds # {}
    /\ dargs.color_value_list.val[1] # dargs.color_value_list.val[2]
    /\ dargs.color_value_list.val[2] # 0

\* The radius the precedence of C8 selects for particle i, as amended.
SelectedRadius(i) ==
    IF dargs.radii.given /\ dargs.atomtypes.given
    THEN dargs.radii.val[dargs.atomtypes.val[i + 1] + 1]
    ELSE IF dargs.radius_list.given THEN dargs.radius_list.val[i + 1]
    ELSE dargs.default_radius

\* Whether r is the radius the precedence of C8 selects for particle i, as
\* stated: the per-type radius whenever perTypeRadii is supplied.
IsStatedRadius(i, r) ==
    IF dargs.radii.given
    THEN dargs.atomtypes.given /\ r = dargs.radii.val[dargs.atomtypes.val[i + 1] + 1]
    ELSE IF dargs.radius_list.given THEN r = dargs.radius_list.val[i + 1]
    ELSE r = dargs.default_radius

\* C8, as stated: the radius of every particle's sphere is the per-type
\* radius of the particle's type whenever perTypeRadii is supplied,
\* otherwise perParticleRadii[i] when supplied, otherwise defaultRadius.
C8_RadiusPrecedenceAsStated ==
    dpc = "done" =>
        LET spheres == Spheres
        IN  \A i \in Drawn(spheres) : \E r \in 0..1000 :
                IsStatedRadius(i, r) /\ Written[Nth(spheres, i + 1)].args[4] = 1000 * r

\* C8, amended: the radius of every particle's sphere is the per-type radius
\* of the particle's type whenever perTypeRadii and the types are both
\* supplied, otherwise perParticleRadii[i] when supplied, otherwise
\* defaultRadius; the cylinder of a bond starting at the particle has that
\* radius times cylinderRadiusFraction.
C8_RadiusPrecedence ==
    dpc = "done" =>
        LET spheres == Spheres
            cylinders == BondCylinders
        IN  /\ \A i \in Drawn(spheres) :
                 Written[Nth(spheres, i + 1)].args[4] = 1000 * SelectedRadius(i)
            /\ Cardinality(cylinders) = Cardinality(Bonds)
            /\ \A b \in Bonds :
                 Written[Nth(cylinders, b)].args[7]
                   = SelectedRadius(BondStart(b)) * dargs.cylinder_radius_fraction

\* C8's case: per-type radii, types and per-particle radii were all given,
\* for two particles of different types, and there is a bond.
C8_Witness ==
    /\ dpc = "done" /\ ~dout.raised
    /\ dargs.radii.given /\ dargs.atomtypes.given /\ dargs.radius_list.given
    /\ NAtoms >= 2 /\ Bonds # {}
    /\ dargs.atomtypes.val[1] # dargs.atomtypes.val[2]

OnlyPositions ==
    /\ ~dargs.atomtypes.given /\ ~dargs.radii.given /\ ~dargs.radius_list.given
    /\ ~dargs.color_list.given /\ ~dargs.color_value_list.given
    /\ ~dargs.connecting_segments_types.given /\ ~dargs.bond_list.given

\* C9: called with positions only and resetView true, draw_atomic writes the
\* 6 setup lines, then one sphere line per particle in index order (at the
\* particle's position, with the default radius), then the 2 view-reset
\* lines, and nothing else: no colour line and no cylinder line.
C9_PlainDrawLines ==
    (dpc = "done" /\ OnlyPositions /\ dargs.reset_view) =>
        /\ ~dout.raised
        /\ Len(Written) = 6 + NAtoms + 2
        /\ SubSeq(Written, 1, 6)
             = << [cmd |-> "axes location off\n", args |-> <<>>],
                  [cmd |-> "display projection orthographic\n", args |-> <<>>],
                  [cmd |-> "display resize 800 800\n", args |-> <<>>],
                  [cmd |-> "draw delete all\n", args |-> <<>>],
                  [cmd |-> "draw materials on\n", args |-> <<>>],
                  [cmd |-> "draw material \"HardPlastic\"\n", args |-> <<>>] >>
        /\ \A i \in 1..NAtoms :
             Written[6 + i]
               = [cmd |-> SphereCmd,
                  args |-> << 1000 * dargs.configuration[i][1],
                              1000 * dargs.configuration[i][2],
                              1000 * dargs.configuration[i][3],
                              1000 * dargs.default_radius,
                              dargs.sphere_resolution >>]
        /\ SubSeq(Written, 6 + NAtoms + 1, 6 + NAtoms + 2)
             = << [cmd |-> "display resetview\n", args |-> <<>>],
                  [cmd |-> "scale by 1.3\n", args |-> <<>>] >>
        /\ \A p \in DOMAIN Written : Written[p].cmd \notin {ColorCmd, CylinderCmd}

\* C9's case: a plain draw of two particles.
C9_Witness ==
    dpc = "done" /\ OnlyPositions /\ dargs.reset_view /\ NAtoms = 2

\* The cylinder lines written after the sphere of particle i and before the
\* sphere of particle i+1 (or the end of the call).
PairCylinders(spheres, i) ==
    IF i + 1 > Cardinality(spheres) THEN {}
    ELSE {p \in DOMAIN Written :
            /\ Written[p].cmd = CylinderCmd
            /\ p > Nth(spheres, i + 1)
            /\ (i + 2 <= Cardinality(spheres) => p < Nth(spheres, i + 2))}

\* Whether connectSameTypeNeighbors contains the type of particle i and
\* particle i+1 has that same type.
SameTypeListed(i) ==
    /\ dargs.atomtypes.given
    /\ \E c \in DOMAIN dargs.connecting_segments_types.val :
           dargs.connecting_segments_types.val[c] = dargs.atomtypes.val[i + 1]
    /\ dargs.atomtypes.val[i + 2] = dargs.atomtypes.val[i + 1]

\* Whether line p is a cylinder from the position of particle i to the
\* position of particle i+1.
JoinsNeighbors(p, i) ==
    /\ p \in DOMAIN Written
    /\ Written[p].cmd = CylinderCmd
    /\ SubSeq(Written[p].args, 1, 6)
         = << 1000 * dargs.configuration[i + 1][1], 1000 * dargs.configuration[i + 1][2],
              1000 * dargs.configuration[i + 1][3], 1000 * dargs.configuration[i + 2][1],
              1000 * dargs.configuration[i + 2][2], 1000 * dargs.configuration[i + 2][3] >>

\* C11: with connectSameTypeNeighbors given, for every particle i that has a
\* successor, exactly one connecting cylinder from particle i to particle i+1
\* is written, right after the sphere of particle i, when the list contains
\* the type of particle i and particle i+1 has that type; otherwise no
\* connecting cylinder is written for the pair.
C11_OneCylinderPerSameTypePair ==
    (dpc = "done" /\ dargs.connecting_segments_types.given) =>
        LET spheres == Spheres
        IN  \A i \in 0..(NAtoms - 2) :
                IF SameTypeListed(i)
                THEN /\ i + 1 <= Cardinality(spheres)
                     /\ Cardinality(PairCylinders(spheres, i)) = 1
                     /\ JoinsNeighbors(Nth(spheres, i + 1) + 1, i)
                ELSE PairCylinders(spheres, i) = {}

\* C12: every colour id written in a "draw color" command that is derived
\* from a continuousColors value in the closed range [0,1] lies inside the
\* id range of the palette, startId..startId+paletteSize-1 (33..1056).
C12_ColorIdInPalette ==
    (/\ dpc = "done"
     /\ dargs.color_value_list.given
     /\ \A k \in DOMAIN dargs.color_value_list.val :
            /\ 0 <= dargs.color_value_list.val[k]
            /\ dargs.color_value_list.val[k] <= CVDenom) =>
        \A p \in DOMAIN Written :
            Written[p].cmd = ColorCmd =>
                /\ VMDSTARTCOLOR <= Written[p].args[1]
                /\ Written[p].args[1] <= VMDSTARTCOLOR + VMDNCOLORS - 1

----------------------------------------------------------------------------
\* Claims about load_xyzfile.

\* The reader returned F position arrays of N rows of three numbers (the
\* coordinates of the file), F type arrays of length N and F box triples.
ReturnsFrames(nframes, n) ==
    /\ xout.status = "ok"
    /\ Len(xout.trajectory) = nframes
    /\ Len(xout.atomtype_list) = nframes
    /\ Len(xout.boxsize_list) = nframes
    /\ \A f \in 1..nframes :
         /\ Len(xout.trajectory[f]) = n
         /\ \A k \in 1..n : xout.trajectory[f][k] = <<k - 1, k, 0>>
         /\ Len(xout.atomtype_list[f]) = n
         /\ xout.boxsize_list[f] = <<10, 10, 10>>

\* C2, as stated: for an input whose line 1 starts with N and whose other
\* lines are F blocks of N atom lines and one box line, load_xyzfile returns
\* F position arrays of N rows, F type arrays of length N and F box triples.
C2_FramesOfDocumentedFormat ==
    (xpc = "done" /\ xin.fmt = "once") => ReturnsFrames(xin.F, xin.N)

\* C2, amended: for an input in which every one of the F frames is a header
\* line followed by N atom lines and one box line (line 1 starting with N),
\* which with one frame is the format as stated, load_xyzfile returns F
\* position arrays of N rows, F type arrays of length N and F box triples,
\* for every F >= 1.
C2_FramesWithHeaderEach ==
    (xpc = "done" /\ (xin.fmt = "perframe" \/ xin.F = 1)) =>
        ReturnsFrames(xin.F, xin.N)

\* C2's case: two frames of two particles, each frame after its own header.
C2_Witness ==
    xpc = "done" /\ xin.fmt = "perframe" /\ xin.F = 2 /\ xin.N = 2

\* The label first-occurrence order gives the k-th type string of the
\* input: the number of distinct strings before its first occurrence.
FirstOccurrence(types, k) ==
    CHOOSE j \in 1..k : types[j] = types[k] /\ \A i \in 1..(j - 1) : types[i] # types[k]
FirstOccurrenceLabel(types, k) ==
    Cardinality({types[i] : i \in 1..(FirstOccurrence(types, k) - 1)})

\* The label returned for atom k of frame f.
Label(f, k) == xout.atomtype_list[f][k]
ParsedAtoms ==
    {<<f, k>> \in (1..Len(xout.atomtype_list)) \X (1..xin.N) :
        k <= Len(xout.atomtype_list[f])}
TypeString(a) == xin.types[(a[1] - 1) * xin.N + a[2]]

\* C10: in one call, every atom's label is the first-occurrence number of
\* its type string over the whole input (the k-th distinct string, from 0,
\* gets k); so equal strings have equal labels in every frame, distinct
\* strings have distinct labels, and the labels lie in 0..T-1 for T
\* distinct strings.
C10_LabelsByFirstOccurrence ==
    (xpc = "done" /\ xout.status = "ok") =>
        /\ \A a \in ParsedAtoms :
             /\ Label(a[1], a[2])
                  = FirstOccurrenceLabel(xin.types, (a[1] - 1) * xin.N + a[2])
             /\ Label(a[1], a[2]) \in 0..(Cardinality({xin.types[i] : i \in DOMAIN xin.types}) - 1)
        /\ \A a, b \in ParsedAtoms :
             (TypeString(a) = TypeString(b)) <=> (Label(a[1], a[2]) = Label(b[1], b[2]))

\* C10's case: two frames were read, with three distinct type strings, one
\* of them in both frames, and the first string read is used again.
C10_Witness ==
    /\ xpc = "done" /\ xout.status = "ok"
    /\ Len(xout.atomtype_list) = 2 /\ xin.N = 2
    /\ Cardinality({xin.types[i] : i \in DOMAIN xin.types}) = 3
    /\ xin.types[1] = xin.types[4]
    /\ xout.atomtype_list = << <<0, 1>>, <<2, 0>> >>

----------------------------------------------------------------------------
\* Claims about the control script.

Channels == 1..Len(conns)
EvaluatedFrom(c) == {k \in DOMAIN evaluated : evaluated[k][1] = c}

\* C5: a connection whose peer address is not 127.0.0.1 is closed, is not in
\* the clients table, has no readable handler, and nothing it sent has been
\* evaluated; so only connections from 127.0.0.1 are accepted.
C5_OnlyLoopbackAccepted ==
    \A c \in Channels :
        conns[c].addr # "127.0.0.1" =>
            /\ ~conns[c].open
            /\ c \notin clients
            /\ c \notin handlers
            /\ EvaluatedFrom(c) = {}

\* C5's case: a peer at another address connected and sent a line, while
\* lines of a loopback connection were being evaluated.
C5_Witness ==
    \E c, d \in Channels :
        /\ conns[c].addr # "127.0.0.1" /\ inbuf[c] # <<>>
        /\ conns[d].addr = "127.0.0.1" /\ EvaluatedFrom(d) # {}

\* recv has just read the line "quit" from channel c.
QuitRead(c) ==
    /\ c \in handlers /\ conns[c].open
    /\ inbuf[c] # <<>> /\ Head(inbuf[c]) = "quit"
    /\ inbuf'[c] = Tail(inbuf[c])

\* C6: when an accepted connection delivers the line "quit", the listening
\* socket is closed and every client connection open at that time stays
\* open, stays in the clients table and keeps its readable handler.
C6_QuitKeepsClients ==
    [][ \A c \in Channels :
          QuitRead(c) =>
            /\ main' = "closed"
            /\ \A d \in Channels : conns[d].open => conns'[d].open
            /\ clients' = clients
            /\ handlers' = handlers ]_vars

====
